---- MODULE Spec2Model ----
(***************************************************************************)
(* Model of backend/index.js: the customer-portal backend.                 *)
(*                                                                         *)
(* State: the process-wide OAuth token cache (cachedToken,                 *)
(* cachedTokenExpiresAt), the wall clock, the requests in flight with the  *)
(* position of each async handler at its await points, the identity        *)
(* provider's and ERP's responses in flight, and the ERP's sales orders.   *)
(* Every action is the code that runs between two await points of one      *)
(* handler (JavaScript runs it without interleaving).                      *)
(***************************************************************************)
EXTENDS Integers, Sequences, FiniteSets, TLC

VARIABLES now, cachedToken, cachedTokenExpiresAt, exchanges, issued,
          started, req, erpOrders, lastWriter

vars == <<now, cachedToken, cachedTokenExpiresAt, exchanges, issued,
          started, req, erpOrders, lastWriter>>

(* ------------------------------ bounds -------------------------------- *)

\* clock granularity in milliseconds, and number of clock steps
TickUnit == 40000
MaxSteps == 1
\* getAccessToken calls of the token-cache specification
MaxCalls == 3
\* HTTP requests of the route specification
MaxRequests == 2
\* longest lines array of a POST /order body
MaxLines == 2

(* ------------------------- program constants -------------------------- *)

MarginSec == 60
DefaultExpiresInSec == 3600
MsPerSec == 1000
SessionTtlSec == 28800

JWT_SECRET == "JWT_SECRET"

PORTAL_USERS ==
  << [id |-> 1, email |-> "Robertos-Rest", password |-> "Rest1234",
      bcCustomerNo |-> "CUST-00466"],
     [id |-> 2, email |-> "Robertos-Roslyn", password |-> "Ros1234",
      bcCustomerNo |-> "CUST-00232"] >>

FallbackCustomerNo == "C00010"

(* ------------------------------ domains ------------------------------- *)

Procs == {1, 2}
\* the process that serves HTTP requests in the route specification
HandlerProcs == {1}

\* Date.now() when the server starts: late enough for a session token signed
\* at time 0 (by an earlier run with the same JWT_SECRET) to have expired
StartTime == SessionTtlSec * MsPerSec

\* the clock values the model visits
Times == {StartTime + k * TickUnit : k \in 0..MaxSteps}

\* lifetimes (seconds) the identity provider states; 0 stands for a zero or
\* missing expires_in (both falsy in JavaScript)
ExpiresInSet == {0, 30, 70, 110}
\* the lifetimes it states in the route specification
RouteExpiresInSet == {0, 70}

\* an access token: its identity, the moment the provider stops honouring it,
\* and the expires_in the provider stated when issuing it
NoToken == [id |-> 0, notAfter |-> 0, expires_in |-> 0]
NoResp == [ok |-> FALSE, access_token |-> NoToken, expires_in |-> 0]

\* a session token as jsonwebtoken builds it: the payload, the registered
\* claims iat and exp (seconds), and the signature made with a secret
NoUser == [id |-> 0, email |-> "", bcCustomerNo |-> ""]
NullJwt == [form |-> "null", payload |-> NoUser, iat |-> 0, exp |-> 0,
            sig |-> ""]
EmptyJwt == [NullJwt EXCEPT !.form = "empty"]
GarbageJwt == [NullJwt EXCEPT !.form = "garbage"]
NoHeader == [scheme |-> "", cred |-> NullJwt]

NoLine == [id |-> 0, quantity |-> 0]
NoLines == [kind |-> "missing", items |-> <<>>]
NoOrder == [id |-> 0, number |-> 0]

(* --------------------------- pure functions --------------------------- *)

\* PORTAL_USERS.find(u => u.email === email && u.password === password):
\* the index of the first matching entry, 0 for undefined
FindUserEmailOnly(email, password) ==
  LET hits == {i \in 1..Len(PORTAL_USERS) : PORTAL_USERS[i].email = email}
  IN  IF hits = {} THEN 0 ELSE CHOOSE i \in hits : \A j \in hits : i <= j

FindUser(email, password) ==
  LET hits == {i \in 1..Len(PORTAL_USERS) :
                 /\ PORTAL_USERS[i].email = email
                 /\ PORTAL_USERS[i].password = password}
  IN  IF hits = {} THEN 0 ELSE CHOOSE i \in hits : \A j \in hits : i <= j

LoginPayload(user) ==
  [id |-> user.id, email |-> user.email, bcCustomerNo |-> user.bcCustomerNo]

\* jwt.sign(payload, secret, {expiresIn: "8h"}) at clock t (ms)
JwtSign(payload, secret, t) ==
  [form |-> "jwt", payload |-> payload, iat |-> t \div MsPerSec,
   exp |-> (t \div MsPerSec) + SessionTtlSec, sig |-> secret]

\* jwt.verify(token, secret) at clock t: throws on a malformed token, a
\* signature made with another secret, or an expired token
JwtVerifyNoExpiry(tok, secret, t) ==
  /\ tok.form = "jwt"
  /\ tok.sig = secret

JwtVerify(tok, secret, t) ==
  /\ tok.form = "jwt"
  /\ tok.sig = secret
  /\ (t \div MsPerSec) < tok.exp

\* authHeader.startsWith("Bearer ") ? authHeader.slice(7) : null
BearerToken(h) == IF h.scheme = "Bearer " THEN h.cred ELSE NullJwt

\* !token : null and the empty string are falsy
NoTokenProvided(h) == BearerToken(h).form \in {"null", "empty"}

\* authMiddleware calls next()
AuthPasses(h, t) ==
  /\ ~NoTokenProvided(h)
  /\ JwtVerify(BearerToken(h), JWT_SECRET, t)

\* user && user.bcCustomerNo ? user.bcCustomerNo : env || "C00010"
CustomerNoOf(user) ==
  IF user.bcCustomerNo # "" THEN user.bcCustomerNo ELSE FallbackCustomerNo

\* !lines || !Array.isArray(lines) || lines.length === 0
LinesInvalidMissingOnly(lines) == lines.kind = "missing"

LinesInvalid(lines) ==
  \/ lines.kind = "missing"
  \/ lines.kind # "array"
  \/ Len(lines.items) = 0

\* if (!line.id || !line.quantity) continue;
SkipLineNever(line) == FALSE

SkipLine(line) == line.id = 0 \/ line.quantity = 0

\* the for-of loop: the first line at or after position from that is not
\* skipped; 0 when the loop runs off the end
NextLineIdx(items, from) ==
  LET todo == {i \in from..Len(items) : ~SkipLine(items[i])}
  IN  IF todo = {} THEN 0 ELSE CHOOSE i \in todo : \A j \in todo : i <= j

\* cachedToken && now < cachedTokenExpiresAt
CacheFreshIgnoresExpiry(tok, expiresAt, t) == tok # NoToken

CacheFresh(tok, expiresAt, t) == tok # NoToken /\ t < expiresAt

\* data.expires_in || 3600
ExpiresInSec(expires_in) ==
  IF expires_in = 0 THEN DefaultExpiresInSec ELSE expires_in

\* now + (expiresInSec - 60) * 1000
ExpiresAtNoMargin(tnow, expires_in) ==
  tnow + ExpiresInSec(expires_in) * MsPerSec

ExpiresAt(tnow, expires_in) ==
  tnow + (ExpiresInSec(expires_in) - MarginSec) * MsPerSec

\* what getAccessToken leaves in <<cachedToken, cachedTokenExpiresAt>> once
\* the exchange response res arrived: untouched when !res.ok (the throw
\* comes before the assignments)
StoreTokenClearsOnError(res, tnow, oldToken, oldExpiresAt) ==
  IF ~res.ok THEN <<NoToken, 0>>
  ELSE <<res.access_token, ExpiresAt(tnow, res.expires_in)>>

StoreTokenFirstWins(res, tnow, oldToken, oldExpiresAt) ==
  IF ~res.ok \/ oldToken # NoToken THEN <<oldToken, oldExpiresAt>>
  ELSE <<res.access_token, ExpiresAt(tnow, res.expires_in)>>

StoreToken(res, tnow, oldToken, oldExpiresAt) ==
  IF ~res.ok THEN <<oldToken, oldExpiresAt>>
  ELSE <<res.access_token, ExpiresAt(tnow, res.expires_in)>>

(* ------------------------------ requests ------------------------------ *)

\* one getAccessToken call or HTTP request and the locals of its handler
\* (lines is the handler's local: it is read from the body once
\* authMiddleware has let the request through)
Blank ==
  [pc |-> "idle", route |-> "none", hdr |-> NoHeader, lines |-> NoLines,
   user |-> NoUser, customerNo |-> "", tnow |-> 0, resp |-> NoResp,
   auth |-> NoToken, authExp |-> 0, fetched |-> FALSE, failed |-> FALSE,
   idx |-> 0, order |-> NoOrder, status |-> 0, bcOrderNo |-> 0,
   ret |-> NoToken, calls |-> <<>>, oks |-> 0,
   email |-> "", password |-> "", session |-> NullJwt, sawId |-> 0]

\* what a client can put in the Authorization header: nothing, another
\* scheme, "Bearer " with nothing behind it, garbage, a token signed with
\* another secret, a token POST /login signed long ago, and one it signed
\* when the server started
SessionTokens == {JwtSign(LoginPayload(PORTAL_USERS[1]), JWT_SECRET, StartTime)}

ExpiredToken == JwtSign(LoginPayload(PORTAL_USERS[1]), JWT_SECRET, 0)

ForgedToken == JwtSign(LoginPayload(PORTAL_USERS[1]), "guess", StartTime)

HeaderSet ==
  {NoHeader,
   [scheme |-> "Token ", cred |-> JwtSign(LoginPayload(PORTAL_USERS[2]),
                                          JWT_SECRET, StartTime)],
   [scheme |-> "Bearer ", cred |-> ExpiredToken],
   [scheme |-> "Bearer ", cred |-> EmptyJwt],
   [scheme |-> "Bearer ", cred |-> GarbageJwt],
   [scheme |-> "Bearer ", cred |-> ForgedToken]}
  \cup {[scheme |-> "Bearer ", cred |-> t] : t \in SessionTokens}

LineSet ==
  {[id |-> 0, quantity |-> 1], [id |-> 1, quantity |-> 0],
   [id |-> 2, quantity |-> 3]}

SeqsUpTo(S, n) == UNION {[1..k -> S] : k \in 0..n}

BodySet ==
  {NoLines, [kind |-> "other", items |-> <<>>]}
  \cup {[kind |-> "array", items |-> s] : s \in SeqsUpTo(LineSet, MaxLines)}

EmailSet == {"Robertos-Rest", "Robertos-Roslyn", "nobody"}
PasswordSet == {"Rest1234", "Ros1234", "wrong"}

\* res.status(code).json(...)
Respond(r, code) == [r EXCEPT !.pc = "done", !.status = code]

\* fetch(url, {headers: {Authorization: authHeader}, ...}): the request
\* leaves now, bearing the credential the handler holds (pos: which element
\* of lines a line creation is for; late: the credential's recorded expiry
\* has passed)
Send(r, kind, line, pcv) ==
  [r EXCEPT !.pc = pcv,
            !.calls = Append(@, [kind |-> kind, doc |-> r.order.id,
                                 pos |-> IF kind = "line" THEN r.idx ELSE 0,
                                 item |-> line.id,
                                 quantity |-> line.quantity,
                                 late |-> now >= r.authExp])]

\* the handler's code after "await getBcAuthHeader()" up to its next await
AfterAuthHeader(r) ==
  CASE r.route = "token"  -> [r EXCEPT !.pc = "done", !.ret = r.auth]
    [] r.route = "items"  -> Send(r, "items", NoLine, "itemsSent")
    [] r.route = "order"  -> Send(r, "customer", NoLine, "custSent")
    [] r.route = "orders" -> Send(r, "orders", NoLine, "ordersSent")

\* getAccessToken up to its await: the cached credential, or the exchange
\* request sent to the identity provider
GetAccessToken(r) ==
  IF CacheFresh(cachedToken, cachedTokenExpiresAt, now)
  THEN AfterAuthHeader([r EXCEPT !.auth = cachedToken,
                                 !.authExp = cachedTokenExpiresAt])
  ELSE [r EXCEPT !.pc = "tokenSent", !.tnow = now, !.fetched = TRUE,
                 !.sawId = cachedToken.id]

\* the rest of the line loop from position from: the next line creation
\* sent, or the success response
LineLoop(r, from) ==
  LET k == NextLineIdx(r.lines.items, from)
  IN  IF k = 0
      THEN [Respond(r, 200) EXCEPT !.bcOrderNo = r.order.number]
      ELSE Send([r EXCEPT !.idx = k], "line", r.lines.items[k], "lineSent")

\* after "await fetch(lineUrl, ...)": 500 when !lineRes.ok, else on with
\* the loop
AfterLineKeepsGoing(r, ok) ==
  LineLoop([r EXCEPT !.oks = @ + 1], r.idx + 1)

AfterLine(r, ok) ==
  IF ~ok THEN Respond(r, 500)
  ELSE LineLoop([r EXCEPT !.oks = @ + 1], r.idx + 1)

\* the ERP answers 2xx only to a credential that has not expired
ErpAccepts(tok) == now < tok.notAfter

(* ------------------------------- state -------------------------------- *)

Init ==
  /\ now = StartTime
  /\ cachedToken = NoToken
  /\ cachedTokenExpiresAt = 0
  /\ exchanges = 0
  /\ issued = 0
  /\ started = 0
  /\ req = [p \in Procs |-> Blank]
  /\ erpOrders = <<>>
  /\ lastWriter = 0

Free(p) == req[p].pc \in {"idle", "done"}

\* a handler starts and runs to its first await (or to its response)
Launch(p, r) ==
  /\ req' = [req EXCEPT ![p] = r]
  /\ exchanges' = IF r.pc = "tokenSent" THEN exchanges + 1 ELSE exchanges
  /\ started' = started + 1
  /\ UNCHANGED <<now, cachedToken, cachedTokenExpiresAt, issued, erpOrders,
                 lastWriter>>

\* a handler resumes after an ERP response
Resume(p, r) ==
  /\ req' = [req EXCEPT ![p] = r]
  /\ UNCHANGED <<now, cachedToken, cachedTokenExpiresAt, exchanges, issued,
                 started, lastWriter>>

(* ------------------------------ actions ------------------------------- *)

\* the clock advances
Tick ==
  /\ now + TickUnit \in Times
  /\ now' = now + TickUnit
  /\ UNCHANGED <<cachedToken, cachedTokenExpiresAt, exchanges, issued,
                 started, req, erpOrders, lastWriter>>

\* a direct call of getAccessToken()
CallGetAccessToken(p) ==
  /\ Free(p)
  /\ started < MaxCalls
  /\ Launch(p, GetAccessToken([Blank EXCEPT !.route = "token"]))

\* the identity provider handles an exchange request: it refuses, or issues
\* a new credential with a lifetime of its choosing among lifetimes
IdpIssue(p, lifetimes) ==
  /\ req[p].pc = "tokenSent"
  /\ \E ok \in BOOLEAN, e \in lifetimes \cup {0} :
       /\ ~ok => e = 0
       /\ req' = [req EXCEPT ![p].pc = "tokenIssued",
                    ![p].resp =
                      [ok |-> ok,
                       access_token |->
                         IF ok THEN [id |-> issued + 1,
                                     notAfter |-> now + e * MsPerSec,
                                     expires_in |-> e]
                         ELSE NoToken,
                       expires_in |-> e]]
       /\ issued' = IF ok THEN issued + 1 ELSE issued
  /\ UNCHANGED <<now, cachedToken, cachedTokenExpiresAt, exchanges, started,
                 erpOrders, lastWriter>>

\* getAccessToken after "await fetch(tokenUrl, ...)", and the caller's code
\* up to its next await
TokenResp(p) ==
  /\ req[p].pc = "tokenIssued"
  /\ LET r  == req[p]
         st == StoreToken(r.resp, r.tnow, cachedToken, cachedTokenExpiresAt)
     IN  /\ cachedToken' = st[1]
         /\ cachedTokenExpiresAt' = st[2]
         /\ lastWriter' = IF r.resp.ok THEN p ELSE lastWriter
         /\ req' = [req EXCEPT ![p] =
                      IF ~r.resp.ok
                      THEN IF r.route = "token"
                           THEN [r EXCEPT !.pc = "done", !.failed = TRUE]
                           ELSE [Respond(r, 500) EXCEPT !.failed = TRUE]
                      ELSE AfterAuthHeader([r EXCEPT !.auth = st[1],
                                                     !.authExp = st[2]])]
  /\ UNCHANGED <<now, exchanges, issued, started, erpOrders>>

\* POST /login
RecvLogin(p, email, password) ==
  /\ Free(p)
  /\ started < MaxRequests
  /\ LET i == FindUser(email, password)
         r == [Blank EXCEPT !.route = "login", !.email = email,
                            !.password = password]
     IN  Launch(p, IF i = 0 THEN Respond(r, 401)
                   ELSE [Respond(r, 200) EXCEPT !.session =
                           JwtSign(LoginPayload(PORTAL_USERS[i]),
                                   JWT_SECRET, now)])

\* GET /items (no authMiddleware)
RecvItems(p) ==
  /\ Free(p)
  /\ started < MaxRequests
  /\ Launch(p, GetAccessToken([Blank EXCEPT !.route = "items"]))

ItemsResp(p) ==
  /\ req[p].pc = "itemsSent"
  /\ \E ok \in BOOLEAN :
       /\ ok => ErpAccepts(req[p].auth)
       /\ Resume(p, IF ok THEN Respond([req[p] EXCEPT !.oks = @ + 1], 200)
                    ELSE Respond(req[p], 500))
  /\ UNCHANGED erpOrders

\* GET /orders: authMiddleware, then the handler
RecvOrders(p, h) ==
  /\ Free(p)
  /\ started < MaxRequests
  /\ LET r == [Blank EXCEPT !.route = "orders", !.hdr = h]
     IN  Launch(p, IF ~AuthPasses(h, now) THEN Respond(r, 401)
                   ELSE GetAccessToken(
                          [r EXCEPT !.user = BearerToken(h).payload,
                                    !.customerNo =
                                       BearerToken(h).payload.bcCustomerNo]))

OrdersResp(p) ==
  /\ req[p].pc = "ordersSent"
  /\ \E ok \in BOOLEAN :
       /\ ok => ErpAccepts(req[p].auth)
       /\ Resume(p, IF ok THEN Respond([req[p] EXCEPT !.oks = @ + 1], 200)
                    ELSE Respond(req[p], 500))
  /\ UNCHANGED erpOrders

\* POST /order: authMiddleware, then the handler up to its first await
\* (the body is not read when authMiddleware refuses the request, so it is
\* not varied then)
RecvOrder(p, h, lines) ==
  /\ Free(p)
  /\ started < MaxRequests
  /\ ~AuthPasses(h, now) => lines = NoLines
  /\ LET r == [Blank EXCEPT !.route = "order", !.hdr = h]
     IN  Launch(p,
           IF ~AuthPasses(h, now) THEN Respond(r, 401)
           ELSE LET u == BearerToken(h).payload
                    a == [r EXCEPT !.user = u, !.customerNo = CustomerNoOf(u),
                                   !.lines = lines]
                IN  IF LinesInvalid(lines) THEN Respond(a, 400)
                    ELSE GetAccessToken(a))

\* the customer lookup returned: 500, 400 when no such customer, else the
\* order header is sent
CustResp(p) ==
  /\ req[p].pc = "custSent"
  /\ \E ok \in BOOLEAN, found \in BOOLEAN :
       /\ ok => ErpAccepts(req[p].auth)
       /\ ~ok => ~found
       /\ Resume(p, IF ~ok THEN Respond(req[p], 500)
                    ELSE IF ~found
                         THEN Respond([req[p] EXCEPT !.oks = @ + 1], 400)
                         ELSE Send([req[p] EXCEPT !.oks = @ + 1], "header",
                                   NoLine, "orderSent"))
  /\ UNCHANGED erpOrders

\* the header creation returned: 500, else the ERP holds a new order and
\* the line loop starts
OrderResp(p) ==
  /\ req[p].pc = "orderSent"
  /\ \E ok \in BOOLEAN :
       /\ ok => ErpAccepts(req[p].auth)
       /\ IF ~ok
          THEN /\ Resume(p, Respond(req[p], 500))
               /\ UNCHANGED erpOrders
          ELSE LET n == Len(erpOrders) + 1
               IN  /\ erpOrders' =
                        Append(erpOrders,
                               [customerNo |-> req[p].customerNo,
                                lines |-> <<>>])
                   /\ Resume(p, LineLoop(
                             [req[p] EXCEPT !.oks = @ + 1,
                                !.order = [id |-> n, number |-> 1000 + n]],
                             1))

\* a line creation returned
LineResp(p) ==
  /\ req[p].pc = "lineSent"
  /\ \E ok \in BOOLEAN :
       /\ ok => ErpAccepts(req[p].auth)
       /\ LET c == req[p].calls[Len(req[p].calls)]
          IN  erpOrders' =
                IF ok
                THEN [erpOrders EXCEPT ![c.doc].lines =
                        Append(@, [item |-> c.item, quantity |-> c.quantity])]
                ELSE erpOrders
       /\ Resume(p, AfterLine(req[p], ok))

(* --------------------------- specifications --------------------------- *)

\* the token cache under two concurrent callers of getAccessToken
NextTok ==
  \/ Tick
  \/ \E p \in Procs : CallGetAccessToken(p)
  \/ \E p \in Procs : IdpIssue(p, ExpiresInSet)
  \/ \E p \in Procs : TokenResp(p)

SpecTok == Init /\ [][NextTok]_vars

\* the HTTP routes
Next ==
  \/ Tick
  \/ \E p \in HandlerProcs, e \in EmailSet, w \in PasswordSet :
       RecvLogin(p, e, w)
  \/ \E p \in HandlerProcs : RecvItems(p)
  \/ \E p \in HandlerProcs, h \in HeaderSet : RecvOrders(p, h)
  \/ \E p \in HandlerProcs, h \in HeaderSet, b \in BodySet : RecvOrder(p, h, b)
  \/ \E p \in HandlerProcs : IdpIssue(p, RouteExpiresInSet)
  \/ \E p \in HandlerProcs : TokenResp(p)
  \/ \E p \in HandlerProcs : ItemsResp(p)
  \/ \E p \in HandlerProcs : OrdersResp(p)
  \/ \E p \in HandlerProcs : CustResp(p)
  \/ \E p \in HandlerProcs : OrderResp(p)
  \/ \E p \in HandlerProcs : LineResp(p)

Spec == Init /\ [][Next]_vars

(* ------------------------------ properties ---------------------------- *)

\* process p starts a call or a request in this step
Starts(p) == Free(p) /\ started' = started + 1 /\ req'[p] # req[p]

\* getAccessToken returns a credential to its caller in this step
Returns(p) ==
  /\ req'[p] # req[p]
  /\ req'[p].route = "token"
  /\ req'[p].pc = "done"
  /\ ~req'[p].failed

\* p's exchange response is processed in this step
Processes(p) == req[p].pc = "tokenIssued" /\ req'[p].pc # "tokenIssued"

CacheUnchanged == UNCHANGED <<cachedToken, cachedTokenExpiresAt>>

\* C1: a getAccessToken call performs an exchange iff no credential is cached
\* or the clock is not before cachedTokenExpiresAt; a call that finds a
\* cached credential with now < cachedTokenExpiresAt returns it and leaves
\* the exchange count (hence two calls, the second before the expiry the
\* first recorded, make one exchange); a call after the expiry makes exactly
\* one exchange, whose successful response overwrites the cache.
C1_ExchangeIffStale ==
  [][
      /\ \A p \in Procs :
           Starts(p) =>
             LET hit == cachedToken # NoToken /\ now < cachedTokenExpiresAt
             IN  /\ hit => /\ exchanges' = exchanges
                           /\ req'[p].pc = "done"
                           /\ req'[p].ret = cachedToken
                           /\ CacheUnchanged
                 /\ ~hit => /\ exchanges' = exchanges + 1
                            /\ req'[p].pc = "tokenSent"
      /\ exchanges' # exchanges => \E q \in Procs : Starts(q)
      /\ \A r \in Procs :
           Processes(r) /\ req[r].resp.ok =>
             /\ cachedToken' = req[r].resp.access_token
             /\ req'[r].ret = req[r].resp.access_token
    ]_vars

\* three calls: an exchange, a second exchange after the expiry passed, and
\* a call served from the cache
C1_Witness ==
  /\ started = 3
  /\ exchanges = 2
  /\ \E p \in Procs :
       /\ req[p].pc = "done" /\ ~req[p].fetched /\ req[p].ret.id = 2
  /\ now < cachedTokenExpiresAt

MarginMs == MarginSec * MsPerSec

\* C2 as claimed: every credential getAccessToken returns is, when returned,
\* valid at the provider for at least the margin.
C2_AlwaysValidForMargin ==
  [][\A p \in Procs :
       Returns(p) => req'[p].ret.notAfter - now' >= MarginMs]_vars

\* C2 amended: a credential returned before the expiry recorded for it (every
\* credential served from the cache is), whose exchange stated a positive
\* expires_in, is valid at the provider for at least the margin.
C2_ValidForMarginBeforeExpiry ==
  [][\A p \in Procs :
       (/\ Returns(p)
        /\ now' < req'[p].authExp
        /\ req'[p].ret.expires_in > 0)
       => req'[p].ret.notAfter - now' >= MarginMs]_vars

\* a call is served from the cache a credential with a stated lifetime
C2_Witness ==
  \E p \in Procs :
    /\ req[p].pc = "done" /\ req[p].route = "token"
    /\ ~req[p].fetched /\ ~req[p].failed
    /\ req[p].ret.expires_in > 0
    /\ now > req[p].ret.notAfter - (req[p].ret.expires_in * MsPerSec)

Raced ==
  /\ \A p \in Procs : /\ req[p].pc = "done" /\ req[p].fetched
                      /\ ~req[p].failed
  /\ req[1].sawId = req[2].sawId

\* p's call, which performed an exchange, overlaps another caller's: both
\* began on the same cache state
Racing(p) ==
  /\ req'[p].fetched
  /\ \E q \in Procs \ {p} :
       /\ req'[q].route = "token"
       /\ req'[q].fetched /\ ~req'[q].failed
       /\ req'[q].pc \in {"tokenSent", "tokenIssued", "done"}
       /\ req'[q].sawId = req'[p].sawId

\* C4 as claimed: concurrent callers each get a credential valid at the
\* provider; the cache holds the pair of the response processed last, a
\* valid credential whose expiry is at most its real expiry minus the margin.
C4_RaceBothValid ==
  /\ [][\A p \in Procs :
          /\ (Returns(p) /\ Racing(p)) => now' < req'[p].ret.notAfter
          /\ (Processes(p) /\ req[p].resp.ok /\ Racing(p)) =>
               /\ cachedToken' = req[p].resp.access_token
               /\ cachedTokenExpiresAt' = req'[p].authExp
               /\ now' < cachedToken'.notAfter
               /\ cachedTokenExpiresAt' <= cachedToken'.notAfter - MarginMs]_vars
  /\ [](Raced => /\ lastWriter # 0
                 /\ cachedToken = req[lastWriter].ret
                 /\ cachedTokenExpiresAt = req[lastWriter].authExp)

\* C4 amended: concurrent callers each get the credential of their own
\* exchange, valid at the provider if returned before the expiry recorded
\* for it; the cache holds the pair of the response processed last, and when
\* that response stated a positive expires_in its expiry is at most the real
\* expiry minus the margin.
C4_RaceLastWriterWins ==
  /\ [][\A p \in Procs :
          /\ (Returns(p) /\ now' < req'[p].authExp
              /\ req'[p].ret.expires_in > 0) => now' < req'[p].ret.notAfter
          /\ (Processes(p) /\ req[p].resp.ok) =>
               /\ req'[p].ret = req[p].resp.access_token
               /\ cachedToken' = req[p].resp.access_token
               /\ cachedTokenExpiresAt' = req'[p].authExp
               /\ (cachedToken'.expires_in > 0 =>
                    cachedTokenExpiresAt' <= cachedToken'.notAfter - MarginMs)]_vars
  /\ [](Raced => /\ lastWriter # 0
                 /\ cachedToken = req[lastWriter].ret
                 /\ cachedTokenExpiresAt = req[lastWriter].authExp)

\* two overlapping calls both exchanged and got different credentials
C4_Witness ==
  /\ Raced
  /\ req[1].ret.id # req[2].ret.id
  /\ cachedToken.expires_in > 0
  /\ cachedToken # NoToken

\* the header carries "Bearer " and a session token signed by this server
\* that has not expired at clock t
ValidSession(h, t) ==
  /\ h.scheme = "Bearer "
  /\ h.cred.form = "jwt"
  /\ h.cred.sig = JWT_SECRET
  /\ (t \div MsPerSec) < h.cred.exp

\* a finished request takes no further step: its record changes only when
\* the next request begins
DoneIsFinal(p) == (req[p].pc = "done" /\ req'[p] # req[p]) => Starts(p)

\* C5: a request to POST /order or GET /orders whose Authorization header is
\* absent, not "Bearer <token>", or carries an invalid or expired session
\* token is answered 401; the handler body does not run, no exchange and no
\* ERP call is made, and the token cache is unchanged.
C5_UnauthenticatedGets401 ==
  [][\A p \in Procs :
       /\ (/\ Starts(p)
           /\ req'[p].route \in {"order", "orders"}
           /\ ~ValidSession(req'[p].hdr, now))
          => /\ req'[p].pc = "done"
             /\ req'[p].status = 401
             /\ req'[p].user = NoUser
             /\ req'[p].calls = <<>>
             /\ ~req'[p].fetched
             /\ exchanges' = exchanges
             /\ erpOrders' = erpOrders
             /\ CacheUnchanged
       /\ DoneIsFinal(p)]_vars

\* a session token that was valid when signed is refused once expired
C5_Witness ==
  \E p \in Procs :
    /\ req[p].route = "order" /\ req[p].status = 401
    /\ req[p].hdr.scheme = "Bearer " /\ req[p].hdr.cred = ExpiredToken

\* C6: an authenticated POST /order whose lines is missing, not an array or
\* empty is answered 400 with no exchange started, no ERP call made and the
\* token cache unchanged.
C6_NoLinesGets400 ==
  [][\A p \in Procs :
       (/\ Starts(p)
        /\ req'[p].route = "order"
        /\ ValidSession(req'[p].hdr, now)
        /\ \/ req'[p].lines.kind # "array"
           \/ req'[p].lines.items = <<>>)
       => /\ req'[p].pc = "done"
          /\ req'[p].status = 400
          /\ req'[p].calls = <<>>
          /\ ~req'[p].fetched
          /\ exchanges' = exchanges
          /\ erpOrders' = erpOrders
          /\ CacheUnchanged]_vars

\* an empty lines array is refused while the cache holds an expired token
C6_Witness ==
  \E p \in Procs :
    /\ req[p].route = "order" /\ req[p].status = 400
    /\ req[p].lines.kind = "array" /\ req[p].lines.items = <<>>
    /\ cachedToken # NoToken /\ now >= cachedTokenExpiresAt

\* the line-creation calls a request has issued
LineCalls(r) == SelectSeq(r.calls, LAMBDA c : c.kind = "line")

\* C7: when the k-th line creation of a POST /order fails, the handler
\* answers 500 and issues no further upstream call (no retry, no remaining
\* line, no delete): the header and the k-1 lines created stay in the ERP.
\* (A line creation failed when its response leaves the ERP's orders as
\* they were.)
C7_LineFailureStops ==
  [][\A p \in Procs :
       /\ (/\ req[p].pc = "lineSent"
           /\ req'[p] # req[p]
           /\ erpOrders' = erpOrders)
          => /\ req'[p].pc = "done"
             /\ req'[p].status = 500
             /\ req'[p].calls = req[p].calls
             /\ Len(erpOrders) >= req[p].order.id
             /\ Len(erpOrders[req[p].order.id].lines)
                  = Len(LineCalls(req[p])) - 1
       /\ DoneIsFinal(p)
       /\ \A n \in 1..Len(erpOrders) :
            /\ Len(erpOrders') >= n
            /\ Len(erpOrders'[n].lines) >= Len(erpOrders[n].lines)]_vars

\* the second line of an order failed after the first was created
C7_Witness ==
  \E p \in Procs :
    /\ req[p].route = "order" /\ req[p].status = 500
    /\ Len(req[p].calls) = 4
    /\ Len(erpOrders[req[p].order.id].lines) = 1

\* C8: POST /login issues a session token iff email and password equal those
\* of one entry of PORTAL_USERS; the payload carries that entry's id, email
\* and bcCustomerNo; any other pair gets 401 and no token.
C8_LoginIffSameEntry ==
  \A p \in Procs :
    req[p].route = "login" =>
      LET r == req[p]
          match == {i \in 1..Len(PORTAL_USERS) :
                      /\ PORTAL_USERS[i].email = r.email
                      /\ PORTAL_USERS[i].password = r.password}
      IN  /\ r.status = 200 <=> match # {}
          /\ r.status = 200 =>
               /\ r.session.form = "jwt" /\ r.session.sig = JWT_SECRET
               /\ \E i \in match :
                    r.session.payload =
                      [id |-> PORTAL_USERS[i].id,
                       email |-> PORTAL_USERS[i].email,
                       bcCustomerNo |-> PORTAL_USERS[i].bcCustomerNo]
          /\ r.status # 200 => r.status = 401 /\ r.session = NullJwt
          /\ (r.email = "Robertos-Rest" /\ r.password = "Rest1234") =>
               r.session.payload = [id |-> 1, email |-> "Robertos-Rest",
                                    bcCustomerNo |-> "CUST-00466"]

\* one user's email with the other user's password was refused, after a
\* successful login
C8_Witness ==
  \E p \in Procs :
    /\ req[p].route = "login" /\ req[p].status = 401
    /\ req[p].email = "Robertos-Rest" /\ req[p].password = "Ros1234"
    /\ started = 2

\* C9: no ERP request is sent bearing a credential whose recorded expiresAt
\* has passed.
C9_NoCallAfterExpiry ==
  \A p \in Procs :
    \A i \in 1..Len(req[p].calls) : ~req[p].calls[i].late

\* the positions, in request order, of the lines of a request that have an
\* id and a non-zero quantity
Wanted(r) ==
  SelectSeq([i \in 1..Len(r.lines.items) |-> i],
            LAMBDA i : /\ r.lines.items[i].id # 0
                       /\ r.lines.items[i].quantity # 0)

\* C10: a POST /order issues customer lookup, header creation and line
\* creations in request order, each after the previous one succeeded; success
\* is answered only after one header and one line per request line with an
\* id and a non-zero quantity were created, each line bearing the header's
\* id; the other lines cause no call.
C10_SequentialOrderCalls ==
  \A p \in Procs :
    req[p].route = "order" =>
      LET r == req[p]
          n == Len(r.calls)
          w == Wanted(r)
      IN  /\ \A i \in 1..n :
               r.calls[i].kind = IF i = 1 THEN "customer"
                                 ELSE IF i = 2 THEN "header" ELSE "line"
          /\ n <= r.oks + 1
          /\ n <= 2 + Len(w)
          /\ \A i \in 3..n :
               /\ r.calls[i].pos = w[i - 2]
               /\ r.calls[i].item = r.lines.items[w[i - 2]].id
               /\ r.calls[i].quantity = r.lines.items[w[i - 2]].quantity
               /\ r.order.id # 0
               /\ r.calls[i].doc = r.order.id
          /\ r.status = 200 =>
               /\ n = 2 + Len(w)
               /\ r.oks = n
               /\ r.bcOrderNo = r.order.number
               /\ Len(erpOrders) >= r.order.id
               /\ erpOrders[r.order.id].lines =
                    [i \in 1..Len(w) |->
                       [item |-> r.lines.items[w[i]].id,
                        quantity |-> r.lines.items[w[i]].quantity]]

\* an order of two lines went through
C10_Witness ==
  \E p \in Procs :
    /\ req[p].route = "order" /\ req[p].status = 200
    /\ Len(req[p].calls) = 4
    /\ req[p].calls[3].pos = 1 /\ req[p].calls[4].pos = 2

====
